---------------------------- MODULE Spec2Model ----------------------------
(***************************************************************************)
(* A model of isfreader/py_isfreader.py: the header/data boundary          *)
(* splitter (split_isf_header), the header text parser (parse_isf_header)  *)
(* and the sample decoder (parse_isf_data).                                *)
(*                                                                         *)
(* A byte buffer is a sequence over 0..255.  Header text is the latin1     *)
(* decoding of a byte buffer: latin1 maps byte b to the character with     *)
(* code point b, so text is a sequence of code points and decoding keeps   *)
(* the numbers (what changes is only the Python type).  Python indices     *)
(* are 0-based; TLA+ sequences are 1-based, so data[i] is data[i + 1].     *)
(***************************************************************************)
EXTENDS Integers, Sequences, FiniteSets, TLC

VARIABLES
    entry,      \* the entry point the caller invoked
    buf,        \* the argument of the call: a byte buffer or a header text
    gen,        \* how buf was built (the caller's knowledge, never read by the code)
    pc,         \* position of the call
    data,       \* split_isf_header: the buffer of the running frame
    frame,      \* split_isf_header: what lines 110-134 made of data
    frames,     \* split_isf_header: the suspended callers (waiting at line 136)
    header,     \* the header a frame or call has produced
    bin_data,   \* the payload a frame has produced
    data_len,   \* the length prefix read by the frame that produced bin_data
    err,        \* the exception in flight, "" when none
    array,      \* parse_isf_data: the value returned
    kv_pairs,   \* parse_isf_header: the tokens its loop has not reached yet
    remove      \* parse_isf_header: the namespace prefix it strips

vars == <<entry, buf, gen, pc, data, frame, frames, header, bin_data, data_len, err, array,
          kv_pairs, remove>>

-----------------------------------------------------------------------------
(* Characters the code names.                                              *)

SEMI == 59
SPACE == 32
QUOTE == 34
LETTER_E == 69

\* b':CURV'
curve == <<58, 67, 85, 82, 86>>
\* b':CURVE #'
CURVE_LONG == <<58, 67, 85, 82, 86, 69, 32, 35>>
\* b':CURV #'
CURVE_SHORT == <<58, 67, 85, 82, 86, 32, 35>>
\* ':WFMPRE:'
WFMPRE == <<58, 87, 70, 77, 80, 82, 69, 58>>
\* ':WFMP:'
WFMP == <<58, 87, 70, 77, 80, 58>>
\* 'ENV'
ENV == <<69, 78, 86>>
\* 'MSB'
MSB == <<77, 83, 66>>
\* 'RI'
RI == <<82, 73>>

-----------------------------------------------------------------------------
(* Python's sequence operations, on 0-based indices.                       *)

Min(S) == CHOOSE x \in S : \A y \in S : x <= y
Max(S) == CHOOSE x \in S : \A y \in S : x >= y

\* A slice bound as Python normalises it: negative counts from the end,
\* and the result is clamped to 0..n.
Clamp(i, n) ==
    IF i < 0 THEN (IF i + n < 0 THEN 0 ELSE i + n)
    ELSE (IF i > n THEN n ELSE i)

\* s[lo:hi]
PySlice(s, lo, hi) ==
    LET a == Clamp(lo, Len(s))
        b == Clamp(hi, Len(s))
    IN  IF a >= b THEN <<>> ELSE SubSeq(s, a + 1, b)

\* s[lo:]
PySliceFrom(s, lo) ==
    LET a == Clamp(lo, Len(s))
    IN  IF a >= Len(s) THEN <<>> ELSE SubSeq(s, a + 1, Len(s))

\* s.find(p): the index of the first occurrence, -1 when there is none
PyFind(s, p) ==
    LET I == {i \in 0..(Len(s) - Len(p)) : SubSeq(s, i + 1, i + Len(p)) = p}
    IN  IF I = {} THEN -1 ELSE Min(I)

\* s.strip(chars): every leading and trailing character of chars goes
PyStrip(s, chars) ==
    LET keep == {i \in 1..Len(s) : s[i] \notin chars}
    IN  IF keep = {} THEN <<>> ELSE SubSeq(s, Min(keep), Max(keep))

\* s.split(c)
RECURSIVE PySplit(_, _)
PySplit(s, c) ==
    LET i == PyFind(s, <<c>>)
    IN  IF i = -1 THEN <<s>>
        ELSE <<SubSeq(s, 1, i)>> \o PySplit(SubSeq(s, i + 2, Len(s)), c)

\* s.split(c, 1)
PySplit1(s, c) ==
    LET i == PyFind(s, <<c>>)
    IN  IF i = -1 THEN <<s>>
        ELSE <<SubSeq(s, 1, i), SubSeq(s, i + 2, Len(s))>>

\* s.replace(p, ''): every occurrence goes, left to right
RECURSIVE PyReplaceEmpty(_, _)
PyReplaceEmpty(s, p) ==
    LET i == PyFind(s, p)
    IN  IF i = -1 THEN s
        ELSE SubSeq(s, 1, i) \o PyReplaceEmpty(SubSeq(s, i + Len(p) + 1, Len(s)), p)

-----------------------------------------------------------------------------
(* Values of a header field.  One record shape for all of them:            *)
(*   t = "None"                    the missing sentinel                    *)
(*   t = "int",   n                an integer                              *)
(*   t = "str",   s                a string                                *)
(*   t = "float", n, e             the finite number n * 10^e, normalised  *)
(*   t = "inf",   n = 1 or -1      an infinity;   t = "nan"                *)
(* Finite floats are kept as exact decimals: float64 agrees with them      *)
(* wherever the values and results are integers below 2^53, which is what  *)
(* the inputs drawn here produce.                                          *)

Val(t, n, e, s) == [t |-> t, n |-> n, e |-> e, s |-> s]
None == Val("None", 0, 0, <<>>)
IntVal(n) == Val("int", n, 0, <<>>)
StrVal(s) == Val("str", 0, 0, s)

RECURSIVE Pow10(_)
Pow10(k) == IF k <= 0 THEN 1 ELSE 10 * Pow10(k - 1)

RECURSIVE Normal(_, _)
Normal(n, e) ==
    IF n = 0 THEN Val("float", 0, 0, <<>>)
    ELSE IF n % 10 = 0 THEN Normal(n \div 10, e + 1)
    ELSE Val("float", n, e, <<>>)

Inf(sign) == Val("inf", sign, 0, <<>>)
NaN == Val("nan", 0, 0, <<>>)
Sign(n) == IF n < 0 THEN -1 ELSE 1

\* int -> float, as numpy promotes an integer operand
ToFloat(v) == IF v.t = "int" THEN Normal(v.n, 0) ELSE v

FNeg(a) ==
    IF a.t = "float" THEN Val("float", -a.n, a.e, <<>>)
    ELSE IF a.t = "inf" THEN Inf(-a.n)
    ELSE a

FAdd(a, b) ==
    IF a.t = "nan" \/ b.t = "nan" THEN NaN
    ELSE IF a.t = "inf" /\ b.t = "inf" THEN (IF a.n = b.n THEN a ELSE NaN)
    ELSE IF a.t = "inf" THEN a
    ELSE IF b.t = "inf" THEN b
    ELSE LET e == IF a.e < b.e THEN a.e ELSE b.e
         IN  Normal(a.n * Pow10(a.e - e) + b.n * Pow10(b.e - e), e)

FSub(a, b) == FAdd(a, FNeg(b))

FMul(a, b) ==
    IF a.t = "nan" \/ b.t = "nan" THEN NaN
    ELSE IF a.t = "inf" \/ b.t = "inf"
         THEN (IF (a.t = "float" /\ a.n = 0) \/ (b.t = "float" /\ b.n = 0) THEN NaN
               ELSE Inf(Sign(a.n) * Sign(b.n)))
    ELSE Normal(a.n * b.n, a.e + b.e)

-----------------------------------------------------------------------------
(* int(str) and float(str), the coercions of HEADER_DISPATCHER.  A result  *)
(* is [ok, val]; ok = FALSE is Python's ValueError.                        *)

Digits == 48..57
UNDERSCORE == 95
PLUS == 43
MINUS == 45
DOT == 46
\* the characters int() and float() skip around a literal
Whitespace == {9, 10, 11, 12, 13, 32, 133, 160}

Ok(v) == [ok |-> TRUE, val |-> v]
ValueError == [ok |-> FALSE, val |-> None]

\* digits, with single underscores allowed between two digits
DigitsOk(s) ==
    /\ Len(s) > 0
    /\ s[1] \in Digits /\ s[Len(s)] \in Digits
    /\ \A i \in 1..Len(s) : s[i] \in Digits \/ s[i] = UNDERSCORE
    /\ \A i \in 1..(Len(s) - 1) : ~(s[i] = UNDERSCORE /\ s[i + 1] = UNDERSCORE)

RECURSIVE DigitsVal(_, _)
DigitsVal(s, acc) ==
    IF s = <<>> THEN acc
    ELSE IF Head(s) = UNDERSCORE THEN DigitsVal(Tail(s), acc)
    ELSE DigitsVal(Tail(s), 10 * acc + (Head(s) - 48))

NDigits(s) == Cardinality({i \in 1..Len(s) : s[i] \in Digits})

\* the sign of a literal and what follows it
SignOf(t) == IF t # <<>> /\ t[1] = MINUS THEN -1 ELSE 1
Unsigned(t) == IF t # <<>> /\ t[1] \in {PLUS, MINUS} THEN Tail(t) ELSE t

\* int() on a literal without the whitespace around it
IntLiteral(t) ==
    IF DigitsOk(Unsigned(t)) THEN Ok(IntVal(SignOf(t) * DigitsVal(Unsigned(t), 0)))
    ELSE ValueError

PyInt(s) == IntLiteral(PyStrip(s, Whitespace))

Lower(s) == [i \in 1..Len(s) |-> IF s[i] \in 65..90 THEN s[i] + 32 ELSE s[i]]

\* sign * intp.frac * 10^expo, expo = <<>> standing for no exponent
Decimal(sign, intp, frac, expo) ==
    IF /\ intp = <<>> \/ DigitsOk(intp)
       /\ frac = <<>> \/ DigitsOk(frac)
       /\ intp # <<>> \/ frac # <<>>
    THEN Ok(Normal(sign * DigitsVal(intp \o frac, 0),
                   (IF expo = <<>> THEN 0 ELSE SignOf(expo) * DigitsVal(Unsigned(expo), 0))
                   - NDigits(frac)))
    ELSE ValueError

\* the mantissa split at its point, at index dPos (-1: no point)
Mantissa(sign, mant, dPos, expo) ==
    IF dPos = -1 THEN Decimal(sign, mant, <<>>, expo)
    ELSE Decimal(sign, SubSeq(mant, 1, dPos), SubSeq(mant, dPos + 2, Len(mant)), expo)

\* the literal split at its exponent mark, at index ePos (-1: no exponent)
Exponent(sign, body, ePos) ==
    IF ePos = -1 THEN Mantissa(sign, body, PyFind(body, <<DOT>>), <<>>)
    ELSE IF ~DigitsOk(Unsigned(SubSeq(body, ePos + 2, Len(body)))) THEN ValueError
    ELSE Mantissa(sign, SubSeq(body, 1, ePos), PyFind(SubSeq(body, 1, ePos), <<DOT>>),
                  SubSeq(body, ePos + 2, Len(body)))

\* float() on a literal without its sign, in lower case
FloatLiteral(sign, low) ==
    IF low \in {<<105, 110, 102>>, <<105, 110, 102, 105, 110, 105, 116, 121>>}
    THEN Ok(Inf(sign))
    ELSE IF low = <<110, 97, 110>> THEN Ok(NaN)
    ELSE Exponent(sign, low, PyFind(low, <<101>>))

Signed(t) == FloatLiteral(SignOf(t), Lower(Unsigned(t)))

PyFloat(s) == Signed(PyStrip(s, Whitespace))

-----------------------------------------------------------------------------
(* The header schema and the key tables.  A canonical field name is a      *)
(* TLA+ string; a raw key, as it stands in a header text, is a sequence    *)
(* of code points.  A dict is the set of its <<key, value>> items.         *)

\* HEADER_DISPATCHER: canonical field |-> its parser.  "strip_quote" is
\* the lambda s: str.strip(s, '"').
HEADER_DISPATCHER ==
    "BYT_NR" :> "int" @@
    "ENCDG" :> "str" @@
    "BN_FMT" :> "str" @@
    "BYT_OR" :> "str" @@
    "WFID" :> "str" @@
    "NR_PT" :> "int" @@
    "PT_FMT" :> "str" @@
    "XUNIT" :> "strip_quote" @@
    "XINCR" :> "float" @@
    "XZERO" :> "float" @@
    "PT_OFF" :> "int" @@
    "YUNIT" :> "strip_quote" @@
    "YMULT" :> "float" @@
    "YOFF" :> "float" @@
    "YZERO" :> "float" @@
    "VSCALE" :> "float" @@
    "HSCALE" :> "float" @@
    "VPOS" :> "float" @@
    "VOFFSET" :> "float" @@
    "HDELAY" :> "float" @@
    ":CURVE" :> "str"

\* the long spellings
SCOPE1_HD ==
    { <<<<66, 89, 84, 95, 78, 82>>, "BYT_NR">>,    \* BYT_NR
      <<<<69, 78, 67, 68, 71>>, "ENCDG">>,    \* ENCDG
      <<<<66, 78, 95, 70, 77, 84>>, "BN_FMT">>,    \* BN_FMT
      <<<<66, 89, 84, 95, 79, 82>>, "BYT_OR">>,    \* BYT_OR
      <<<<87, 70, 73, 68>>, "WFID">>,    \* WFID
      <<<<78, 82, 95, 80, 84>>, "NR_PT">>,    \* NR_PT
      <<<<80, 84, 95, 70, 77, 84>>, "PT_FMT">>,    \* PT_FMT
      <<<<88, 85, 78, 73, 84>>, "XUNIT">>,    \* XUNIT
      <<<<88, 73, 78, 67, 82>>, "XINCR">>,    \* XINCR
      <<<<88, 90, 69, 82, 79>>, "XZERO">>,    \* XZERO
      <<<<80, 84, 95, 79, 70, 70>>, "PT_OFF">>,    \* PT_OFF
      <<<<89, 85, 78, 73, 84>>, "YUNIT">>,    \* YUNIT
      <<<<89, 77, 85, 76, 84>>, "YMULT">>,    \* YMULT
      <<<<89, 79, 70, 70>>, "YOFF">>,    \* YOFF
      <<<<89, 90, 69, 82, 79>>, "YZERO">>,    \* YZERO
      <<<<86, 83, 67, 65, 76, 69>>, "VSCALE">>,    \* VSCALE
      <<<<72, 83, 67, 65, 76, 69>>, "HSCALE">>,    \* HSCALE
      <<<<86, 80, 79, 83>>, "VPOS">>,    \* VPOS
      <<<<86, 79, 70, 70, 83, 69, 84>>, "VOFFSET">>,    \* VOFFSET
      <<<<72, 68, 69, 76, 65, 89>>, "HDELAY">>,    \* HDELAY
      <<<<58, 67, 85, 82, 86, 69>>, ":CURVE">>    \* :CURVE
    }

\* the short spellings, and two extra entries whose values are the types str and int
SCOPE2_HD ==
    { <<<<66, 89, 84, 95, 78>>, "BYT_NR">>,    \* BYT_N
      <<<<69, 78, 67>>, "ENCDG">>,    \* ENC
      <<<<66, 78, 95, 70>>, "BN_FMT">>,    \* BN_F
      <<<<66, 89, 84, 95, 79>>, "BYT_OR">>,    \* BYT_O
      <<<<87, 70, 73>>, "WFID">>,    \* WFI
      <<<<78, 82, 95, 80>>, "NR_PT">>,    \* NR_P
      <<<<80, 84, 95, 70>>, "PT_FMT">>,    \* PT_F
      <<<<88, 85, 78>>, "XUNIT">>,    \* XUN
      <<<<88, 73, 78>>, "XINCR">>,    \* XIN
      <<<<88, 90, 69>>, "XZERO">>,    \* XZE
      <<<<80, 84, 95, 79>>, "PT_OFF">>,    \* PT_O
      <<<<89, 85, 78>>, "YUNIT">>,    \* YUN
      <<<<89, 77, 85>>, "YMULT">>,    \* YMU
      <<<<89, 79, 70>>, "YOFF">>,    \* YOF
      <<<<89, 90, 69>>, "YZERO">>,    \* YZE
      <<<<86, 83, 67, 65, 76, 69>>, "VSCALE">>,    \* VSCALE
      <<<<72, 83, 67, 65, 76, 69>>, "HSCALE">>,    \* HSCALE
      <<<<86, 80, 79, 83>>, "VPOS">>,    \* VPOS
      <<<<86, 79, 70, 70, 83, 69, 84>>, "VOFFSET">>,    \* VOFFSET
      <<<<72, 68, 69, 76, 65, 89>>, "HDELAY">>,    \* HDELAY
      <<<<58, 67, 85, 82, 86>>, ":CURVE">>,    \* :CURV
      <<<<67, 79, 77, 80>>, "<class 'str'>">>,    \* COMP
      <<<<70, 73, 76, 84, 69, 82, 70>>, "<class 'int'>">>    \* FILTERF
    }

\* d.get(k, default)
DictGet(d, k, default) ==
    IF \E p \in d : p[1] = k THEN (CHOOSE p \in d : p[1] = k)[2] ELSE default

\* d1.update(d2): the items of d2 replace those of d1 with the same key
DictUpdate(d1, d2) == {p \in d1 : ~(\E q \in d2 : q[1] = p[1])} \cup d2

\* CORRECTING_HD = SCOPE1_HD; CORRECTING_HD.update(SCOPE2_HD)
CORRECTING_HD == DictUpdate(SCOPE1_HD, SCOPE2_HD)

\* HEADER_DISPATCHER[key](val)
Coerce(key, val) ==
    LET parser == HEADER_DISPATCHER[key]
    IN  IF parser = "int" THEN PyInt(val)
        ELSE IF parser = "float" THEN PyFloat(val)
        ELSE IF parser = "strip_quote" THEN Ok(StrVal(PyStrip(val, {QUOTE})))
        ELSE Ok(StrVal(val))

-----------------------------------------------------------------------------
(* parse_isf_header.  The result of a call is [kind, err, header]:         *)
(* kind = "return" with the header, or kind = "raise" with the exception.  *)

Returned(h) == [kind |-> "return", err |-> "", header |-> h]
Raised(e) == [kind |-> "raise", err |-> e, header |-> <<>>]

\* dict.fromkeys(HEADER_DISPATCHER.keys())
EmptyHeader == [k \in DOMAIN HEADER_DISPATCHER |-> None]

\* remove = ':WFMPRE:'; if remove not in header_text: remove = ':WFMP:'
Prefix(header_text) ==
    IF PyFind(header_text, WFMPRE) = -1 THEN WFMP ELSE WFMPRE

\* the condition of line 159, `if kv_pair.find(' ')`: an int is true
\* unless it is 0, so -1 (no space at all) passes
HasPair(kv_pair) == PyFind(kv_pair, <<SPACE>>) # 0

\* key.replace(remove, '')
StripPrefix(key, prefix) == PyReplaceEmpty(key, prefix)

\* line 164, v being HEADER_DISPATCHER[key](val)
Store(h, key, v) ==
    IF v.ok THEN Returned([h EXCEPT ![key] = v.val]) ELSE Raised("ValueError")

\* lines 163-164, key being what CORRECTING_HD.get gave
Lookup(h, key, val) ==
    IF key \notin DOMAIN HEADER_DISPATCHER THEN Returned(h)
    ELSE Store(h, key, Coerce(key, val))

\* lines 160-164, pair being kv_pair.split(' ', 1)
Unpack(h, pair, prefix) ==
    IF Len(pair) # 2 THEN Raised("ValueError")
    ELSE Lookup(h, DictGet(CORRECTING_HD, StripPrefix(pair[1], prefix), "None"), pair[2])

\* one turn of the loop of lines 158-164 on the header built so far
HeaderStep(h, kv_pair, prefix) ==
    IF ~HasPair(kv_pair) THEN Returned(h)
    ELSE Unpack(h, PySplit1(kv_pair, SPACE), prefix)

\* the rest of the loop, r being the result of the turn on tokens[i]
RECURSIVE HeaderLoop(_, _, _, _)
Continue(r, tokens, i, prefix) ==
    IF r.kind = "raise" THEN r ELSE HeaderLoop(r.header, tokens, i + 1, prefix)

HeaderLoop(h, tokens, i, prefix) ==
    IF i > Len(tokens) THEN Returned(h)
    ELSE Continue(HeaderStep(h, tokens[i], prefix), tokens, i, prefix)

\* the tokens the loop runs over: header_text.strip(';').split(';')
Tokens(header_text) == PySplit(PyStrip(header_text, {SEMI}), SEMI)

parse_isf_header(header_text) ==
    HeaderLoop(EmptyHeader, Tokens(header_text), 1, Prefix(header_text))


-----------------------------------------------------------------------------
(* split_isf_header.  Frame(d) is one invocation on the buffer d, up to    *)
(* the test of line 134: [kind, err, header, bin_data, data_len, split,    *)
(* rest] with kind = "raise" (err), "return" (header, bin_data) or         *)
(* "recurse" (the ENV case: rest is the buffer of the nested call).        *)

FrameRaises(e) ==
    [kind |-> "raise", err |-> e, header |-> <<>>, bin_data |-> <<>>,
     data_len |-> 0, split |-> 0, rest |-> <<>>]

\* lines 112-117: the length of the directive that starts at find, 0 when
\* the code raises InvalidFileError.  Called with find + len(curve) < len(d).
MarkerLength(d, find) ==
    IF d[find + Len(curve) + 1] = LETTER_E THEN Len(CURVE_LONG)
    ELSE IF find # -1 THEN Len(CURVE_SHORT)
    ELSE 0

\* line 128: bin_data = data[split:split+data_len]
Payload(d, split, len) == PySlice(d, split, split + len)

\* line 136: the argument of the nested call, data[split+data_len:]
Suffix(d, split, len) == PySliceFrom(d, split + len)

\* line 134
IsEnv(h) == h["PT_FMT"] = StrVal(ENV)

\* lines 131-136, h being the result of parse_isf_header
FrameHeader(d, split, len, h) ==
    IF h.kind = "raise" THEN FrameRaises(h.err)
    ELSE [kind |-> IF IsEnv(h.header) THEN "recurse" ELSE "return",
          err |-> "",
          header |-> h.header,
          bin_data |-> Payload(d, split, len),
          data_len |-> len,
          split |-> split,
          rest |-> Suffix(d, split, len)]

\* lines 123-131, len being the result of int() on the length digits
FrameSplit(d, split, len) ==
    IF ~len.ok THEN FrameRaises("ValueError")
    ELSE FrameHeader(d, split, len.val.n, parse_isf_header(PySlice(d, 0, split)))

\* lines 122-124, pad being the result of int() on the count digit
FrameLength(d, find, pad) ==
    IF ~pad.ok THEN FrameRaises("ValueError")
    ELSE FrameSplit(d, find + (pad.val.n + 1),
                    PyInt(PySlice(d, find + 1, find + (pad.val.n + 1))))

\* lines 122-134, find being the index of the count digit
FrameAt(d, find) == FrameLength(d, find, PyInt(PySlice(d, find, find + 1)))

\* lines 110-134
Frame(d) ==
    LET find == PyFind(d, curve)
    IN  IF find + Len(curve) >= Len(d) THEN FrameRaises("IndexError")
        ELSE IF MarkerLength(d, find) = 0 THEN FrameRaises("InvalidFileError")
        ELSE FrameAt(d, find + MarkerLength(d, find))

\* lines 137-138: what the caller's except clause makes of an exception
\* of the nested call
Handler(e) ==
    IF e \in {"IndexError", "InvalidFileError"} THEN "InvalidFileError" ELSE e

-----------------------------------------------------------------------------
(* parse_isf_data, lines 193-215, and the numpy calls it makes.            *)

RECURSIVE Pow256(_)
Pow256(k) == IF k <= 0 THEN 1 ELSE 256 * Pow256(k - 1)

\* the element sizes of numpy's integer dtypes
DtypeSizes == {1, 2, 4, 8}

\* one element of np.fromstring(data, dtype): the bytes g read in
\* byte_order as a byte_format integer
RECURSIVE Unsigned_(_, _)
Unsigned_(g, acc) == IF g = <<>> THEN acc ELSE Unsigned_(Tail(g), 256 * acc + Head(g))

Reverse(g) == [i \in 1..Len(g) |-> g[Len(g) + 1 - i]]

\* the decoder that reads every group as an unsigned integer
ElementUnsigned(g, byte_order, byte_format) ==
    Unsigned_(IF byte_order = ">" THEN g ELSE Reverse(g), 0)

Element(g, byte_order, byte_format) ==
    LET u == Unsigned_(IF byte_order = ">" THEN g ELSE Reverse(g), 0)
    IN  IF byte_format = "i" /\ 2 * u >= Pow256(Len(g)) THEN u - Pow256(Len(g)) ELSE u

\* np.fromstring(data, dtype), the length of data being a multiple of size
FromString(b, byte_order, byte_format, size) ==
    [i \in 1..(Len(b) \div size) |->
        Element(SubSeq(b, (i - 1) * size + 1, i * size), byte_order, byte_format)]

\* np.arange(num_rows)
Arange(num_rows) == [i \in 1..num_rows |-> i - 1]

\* line 208, element i of np.arange(num_rows)
XValue(i, pt_off, xincr, xzero) ==
    FAdd(FMul(ToFloat(IntVal(i - pt_off.n)), xincr), xzero)

\* line 209, on the element raw of data
YValue(raw, yoff, ymult, yzero) ==
    FAdd(FMul(FSub(ToFloat(IntVal(raw)), yoff), ymult), yzero)

Result(kind, e, x, y) == [kind |-> kind, err |-> e, x |-> x, y |-> y]
NoResult == Result("none", "", <<>>, <<>>)

\* lines 194-211 on the header h and payload b of split_isf_header.
\* kind = "raise": the exception; kind = "return": the columns x and y of
\* the array (row i is <<x[i], y[i]>>); kind = "ragged": xdata and ydata
\* differ in length, and what np.array makes of that depends on the numpy
\* build (see Built).  An arithmetic operand None raises TypeError
\* when the array has an element to apply it to.
Decode(h, b) ==
    LET num_rows == h["NR_PT"]
        yoff == h["YOFF"]
        ymult == h["YMULT"]
        yzero == h["YZERO"]
        pt_off == h["PT_OFF"]
        xincr == h["XINCR"]
        xzero == h["XZERO"]
        byte_order == IF h["BYT_OR"] = StrVal(MSB) THEN ">" ELSE "<"
        byte_format == IF h["BN_FMT"] = StrVal(RI) THEN "i" ELSE "u"
        byte_size == h["BYT_NR"]
    IN  IF byte_size.t # "int" \/ byte_size.n \notin DtypeSizes
        THEN Result("raise", "TypeError", <<>>, <<>>)
        ELSE IF Len(b) % byte_size.n # 0
        THEN Result("raise", "ValueError", <<>>, <<>>)
        ELSE IF num_rows.t # "int"
        THEN Result("raise", "TypeError", <<>>, <<>>)
        ELSE
        LET raw == FromString(b, byte_order, byte_format, byte_size.n)
            index == Arange(num_rows.n)
        IN  IF \/ index # <<>> /\ None \in {pt_off, xincr, xzero}
               \/ raw # <<>> /\ None \in {yoff, ymult, yzero}
            THEN Result("raise", "TypeError", <<>>, <<>>)
            ELSE
            LET xdata == [i \in DOMAIN index |-> XValue(index[i], pt_off, xincr, xzero)]
                ydata == [i \in DOMAIN raw |-> YValue(raw[i], yoff, ymult, yzero)]
            IN  Result(IF Len(xdata) = Len(ydata) THEN "return" ELSE "ragged",
                       "", xdata, ydata)


-----------------------------------------------------------------------------
(* The calls.  parse_isf_data(buf) runs split_isf_header frame by frame,   *)
(* the nested ENV calls on a stack, then decodes.  parse_isf_header(buf),  *)
(* called on its own, runs its loop token by token.                        *)

\* the depth at which the interpreter raises RecursionError
\* (sys.getrecursionlimit(), cut down to keep the runs short)
RecursionLimit == 3

\* parse_isf_data, line 191: the call of split_isf_header, which runs
\* lines 110-134 on the buffer
CallSplit ==
    /\ entry = "parse_isf_data" /\ pc = "start"
    /\ pc' = "frame"
    /\ data' = buf
    /\ frame' = Frame(buf)
    /\ UNCHANGED <<entry, buf, gen, frames, header, bin_data, data_len, err, array,
                   kv_pairs, remove>>

\* the exception of the running frame leaves it (lines 112, 117, 122, 123, 131)
FrameRaise ==
    /\ pc = "frame" /\ frame.kind = "raise"
    /\ pc' = "raising"
    /\ err' = frame.err
    /\ UNCHANGED <<entry, buf, gen, data, frame, frames, header, bin_data, data_len,
                   array, kv_pairs, remove>>

\* the running frame, its header not ENV, reaches line 140
FrameReturn ==
    /\ pc = "frame" /\ frame.kind = "return"
    /\ pc' = "returning"
    /\ header' = frame.header
    /\ bin_data' = frame.bin_data
    /\ data_len' = frame.data_len
    /\ UNCHANGED <<entry, buf, gen, data, frame, frames, err, array, kv_pairs, remove>>

\* line 136: the nested call, which runs lines 110-134 on the suffix
FrameRecurse ==
    /\ pc = "frame" /\ frame.kind = "recurse"
    /\ Len(frames) + 1 < RecursionLimit
    /\ frames' = Append(frames, data)
    /\ data' = frame.rest
    /\ frame' = Frame(frame.rest)
    /\ UNCHANGED <<entry, buf, gen, pc, header, bin_data, data_len, err, array,
                   kv_pairs, remove>>

\* line 136, the stack being full: the interpreter raises RecursionError
FrameOverflow ==
    /\ pc = "frame" /\ frame.kind = "recurse"
    /\ Len(frames) + 1 >= RecursionLimit
    /\ pc' = "raising"
    /\ err' = "RecursionError"
    /\ UNCHANGED <<entry, buf, gen, data, frame, frames, header, bin_data, data_len,
                   array, kv_pairs, remove>>

\* lines 137-138: the exception of a nested call reaches its caller
Except ==
    /\ pc = "raising" /\ frames # <<>>
    /\ err' = Handler(err)
    /\ data' = frames[Len(frames)]
    /\ frames' = SubSeq(frames, 1, Len(frames) - 1)
    /\ UNCHANGED <<entry, buf, gen, pc, frame, header, bin_data, data_len, array,
                   kv_pairs, remove>>

\* lines 136, 140: the caller takes over the nested result and returns it
ReturnNested ==
    /\ pc = "returning" /\ frames # <<>>
    /\ data' = frames[Len(frames)]
    /\ frames' = SubSeq(frames, 1, Len(frames) - 1)
    /\ UNCHANGED <<entry, buf, gen, pc, frame, header, bin_data, data_len, err, array,
                   kv_pairs, remove>>

\* the outermost split_isf_header call has ended
SplitRaised == pc = "raising" /\ frames = <<>>
SplitReturned == pc = "returning" /\ frames = <<>>

\* line 191: an exception of split_isf_header leaves parse_isf_data
DataRaise ==
    /\ entry = "parse_isf_data" /\ SplitRaised
    /\ pc' = "done"
    /\ array' = Result("raise", err, <<>>, <<>>)
    /\ UNCHANGED <<entry, buf, gen, data, frame, frames, header, bin_data, data_len,
                   err, kv_pairs, remove>>

\* What line 211 makes of the columns r of Decode.  On columns of
\* different lengths np.array((xdata, ydata)) raises ValueError (numpy
\* 1.24 and later) or builds a 2-element object array holding the two
\* columns (earlier numpy), which is then returned.
Built(r) ==
    IF r.kind = "ragged"
    THEN {Result("raise", "ValueError", <<>>, <<>>), [r EXCEPT !.kind = "object"]}
    ELSE {r}

\* lines 194-215
DecodeData ==
    /\ entry = "parse_isf_data" /\ SplitReturned
    /\ pc' = "done"
    /\ array' \in Built(Decode(header, bin_data))
    /\ err' = array'.err
    /\ UNCHANGED <<entry, buf, gen, data, frame, frames, header, bin_data, data_len,
                   kv_pairs, remove>>

\* parse_isf_header, lines 152-157
HeaderStart ==
    /\ entry = "parse_isf_header" /\ pc = "start"
    /\ pc' = "loop"
    /\ remove' = Prefix(buf)
    /\ kv_pairs' = Tokens(buf)
    /\ header' = EmptyHeader
    /\ UNCHANGED <<entry, buf, gen, data, frame, frames, bin_data, data_len, err, array>>

\* lines 158-164: one turn of the loop, on the first token left
Turn(r) ==
    IF r.kind = "raise"
    THEN /\ pc' = "done"
         /\ err' = r.err
         /\ UNCHANGED <<header, kv_pairs>>
    ELSE /\ header' = r.header
         /\ kv_pairs' = Tail(kv_pairs)
         /\ UNCHANGED <<pc, err>>

HeaderToken ==
    /\ pc = "loop" /\ kv_pairs # <<>>
    /\ Turn(HeaderStep(header, Head(kv_pairs), remove))
    /\ UNCHANGED <<entry, buf, gen, data, frame, frames, bin_data, data_len, array, remove>>

\* line 175
HeaderReturn ==
    /\ pc = "loop" /\ kv_pairs = <<>>
    /\ pc' = "done"
    /\ UNCHANGED <<entry, buf, gen, data, frame, frames, header, bin_data, data_len,
                   err, array, kv_pairs, remove>>

-----------------------------------------------------------------------------
(* The buffers handed to parse_isf_data.  Three families: buffers with no  *)
(* marker, buffers assembled from a head, a directive, a length prefix, a  *)
(* payload and a tail, and waveform files written out from samples and     *)
(* calibration constants.                                                  *)

Concat(parts) == LET RECURSIVE Cat(_)
                     Cat(i) == IF i > Len(parts) THEN <<>> ELSE parts[i] \o Cat(i + 1)
                 IN  Cat(1)

\* seqs joined by the character c
RECURSIVE Join(_, _)
Join(seqs, c) ==
    IF seqs = <<>> THEN <<>>
    ELSE IF Len(seqs) = 1 THEN seqs[1]
    ELSE seqs[1] \o <<c>> \o Join(Tail(seqs), c)

\* the sequences over S of length at most n
RECURSIVE SeqsUpTo(_, _)
SeqsUpTo(S, n) ==
    IF n = 0 THEN {<<>>}
    ELSE LET shorter == SeqsUpTo(S, n - 1)
         IN  shorter \cup {Append(s, x) : s \in {t \in shorter : Len(t) = n - 1}, x \in S}

Prefixes(s) == {SubSeq(s, 1, n) : n \in 0..Len(s)}

\* buffers that hold no ':CURV': the prefixes of 'xxxxE  11a', of
\* 'xxxxE  0', of 'abcdX' and of ':CURxE #11a'
NoMarkerBuffers ==
    Prefixes(<<120, 120, 120, 120, 69, 32, 32, 49, 49, 97>>)
    \cup Prefixes(<<120, 120, 120, 120, 69, 32, 32, 48>>)
    \cup Prefixes(<<97, 98, 99, 100, 88>>)
    \cup Prefixes(<<58, 67, 85, 82, 120, 69, 32, 35, 49, 49, 97>>)

\* '', ':WFMP:PT_F ENV;', ':WFMPRE:PT_FMT Y;', 'abc;', 'NR_PT x;'
Heads ==
    { <<>>,
      <<58, 87, 70, 77, 80, 58, 80, 84, 95, 70, 32, 69, 78, 86, 59>>,
      <<58, 87, 70, 77, 80, 82, 69, 58, 80, 84, 95, 70, 77, 84, 32, 89, 59>>,
      <<97, 98, 99, 59>>,
      <<78, 82, 95, 80, 84, 32, 120, 59>> }

Directives == {CURVE_SHORT, CURVE_LONG, curve}

\* '10', '11', '12', '1x', 'x', '0', '3-26', '3-99', '2-1', '2 1'
LengthTexts ==
    { <<49, 48>>, <<49, 49>>, <<49, 50>>, <<49, 120>>, <<120>>, <<48>>,
      <<51, 45, 50, 54>>, <<51, 45, 57, 57>>, <<50, 45, 49>>, <<50, 32, 49>> }

\* '', 'a', 'ab'
Payloads == {<<>>, <<97>>, <<97, 98>>}

\* '', ':CURV #11z', ':CURV #x', 'abcdE  11z', 'abcdef',
\* ':WFMP:PT_F ENV;:CURV #10'
Tails ==
    { <<>>,
      <<58, 67, 85, 82, 86, 32, 35, 49, 49, 122>>,
      <<58, 67, 85, 82, 86, 32, 35, 120>>,
      <<97, 98, 99, 100, 69, 32, 32, 49, 49, 122>>,
      <<97, 98, 99, 100, 101, 102>>,
      <<58, 87, 70, 77, 80, 58, 80, 84, 95, 70, 32, 69, 78, 86, 59,
        58, 67, 85, 82, 86, 32, 35, 49, 48>> }

Assembled ==
    { Concat(<<h, d, l, p, t>>) :
        h \in Heads, d \in Directives, l \in LengthTexts, p \in Payloads, t \in Tails }

(* Waveform files.                                                         *)

RECURSIVE NatText(_)
NatText(n) == IF n < 10 THEN <<48 + n>> ELSE NatText(n \div 10) \o <<48 + (n % 10)>>

\* n in decimal, and n as a float literal
IntText(n) == IF n < 0 THEN <<MINUS>> \o NatText(-n) ELSE NatText(n)
FloatText(n) == IntText(n) \o <<DOT, 48>>

\* the length prefix of a payload of n bytes: the count digit, the digits
LengthPrefix(n) == NatText(Len(NatText(n))) \o NatText(n)

\* the sample v written in width bytes, two's complement
SampleBytes(v, byte_order, width) ==
    LET u == IF v < 0 THEN v + Pow256(width) ELSE v
        lsb == [k \in 1..width |-> (u \div Pow256(k - 1)) % 256]
    IN  IF byte_order = "MSB" THEN Reverse(lsb) ELSE lsb

RECURSIVE SamplesBytes(_, _, _)
SamplesBytes(samples, byte_order, width) ==
    IF samples = <<>> THEN <<>>
    ELSE SampleBytes(Head(samples), byte_order, width)
         \o SamplesBytes(Tail(samples), byte_order, width)

\* the raw key of a field in a spelling
KeyText(field, spelling) ==
    LET table == IF spelling = "long" THEN SCOPE1_HD ELSE SCOPE2_HD
    IN  (CHOOSE p \in table : p[2] = field)[1]

Token(namespace, field, spelling, value) ==
    namespace \o KeyText(field, spelling) \o <<SPACE>> \o value

\* the longest sample list of a waveform file
MaxSamples == 2

\* g: [byte_order, bn_fmt, width, samples, cal, spelling, nr_pt, extra]:
\* samples written in (byte_order, bn_fmt, width); cal the integers
\* <<PT_OFF, XINCR, XZERO, YOFF, YMULT, YZERO>>; nr_pt the NR_PT the header
\* declares; extra what the length prefix declares beyond the payload.
\* The header is laid out as in a file of the instrument: the namespace on
\* the first key, the CURVE directive last.
WaveformHeader(g) ==
    LET ns == IF g.spelling = "long" THEN WFMPRE ELSE WFMP
        T(k, v) == Token(<<>>, k, g.spelling, v)
    IN  Join(<< Token(ns, "BYT_NR", g.spelling, IntText(g.width)),
                T("BN_FMT", IF g.bn_fmt = "RI" THEN RI ELSE <<82, 80>>),
                T("BYT_OR", IF g.byte_order = "MSB" THEN MSB ELSE <<76, 83, 66>>),
                T("NR_PT", IntText(g.nr_pt)),
                T("PT_OFF", IntText(g.cal[1])),
                T("XINCR", FloatText(g.cal[2])),
                T("XZERO", FloatText(g.cal[3])),
                T("YOFF", FloatText(g.cal[4])),
                T("YMULT", FloatText(g.cal[5])),
                T("YZERO", FloatText(g.cal[6])),
                T("PT_FMT", <<89>>) >>, SEMI)

WaveformFile(g) ==
    LET payload == SamplesBytes(g.samples, g.byte_order, g.width)
    IN  WaveformHeader(g) \o <<SEMI>>
        \o (IF g.spelling = "long" THEN CURVE_LONG ELSE CURVE_SHORT)
        \o LengthPrefix(Len(payload) + g.extra) \o payload

\* the values a sample may take: 1 and the extremes of the format
SampleValues(bn_fmt, width) ==
    IF bn_fmt = "RI"
    THEN {1, -1, -(Pow256(width) \div 2)}
    ELSE {1, Pow256(width) - 1, Pow256(width) \div 2}

Calibrations == {<<0, 1, 0, 0, 2, 0>>, <<1, 2, -3, 4, -5, 6>>}

Waveform(o, f, w, s, c, sp, n, x) ==
    [family |-> "waveform", byte_order |-> o, bn_fmt |-> f, width |-> w,
     samples |-> s, cal |-> c, spelling |-> sp, nr_pt |-> n, extra |-> x]

\* files whose header and length prefix declare what the payload holds
WellFormed(o, f, w) ==
    { Waveform(o, f, w, s, c, sp, Len(s), 0) :
        s \in SeqsUpTo(SampleValues(f, w), MaxSamples),
        c \in Calibrations, sp \in {"long", "short"} }

\* files that declare one sample more or less than the payload holds, or
\* one byte more than the buffer holds
Mismatched(o, f, w) ==
    { Waveform(o, f, w, s, <<0, 1, 0, 0, 2, 0>>, "long", Len(s) + m[1], m[2]) :
        s \in SeqsUpTo(SampleValues(f, w), MaxSamples),
        m \in {<<1, 0>>, <<-1, 0>>, <<0, 1>>} }

\* the file of 3 signed single-byte samples [1, -1, 2], Y scaled by 2
Example == Waveform("LSB", "RI", 1, <<1, -1, 2>>, <<0, 1, 0, 0, 2, 0>>, "long", 3, 0)

Waveforms ==
    UNION { WellFormed(o, f, w) \cup Mismatched(o, f, w) :
              o \in {"MSB", "LSB"}, f \in {"RI", "RP"}, w \in {1, 2} }
    \cup {Example}

\* the arguments of parse_isf_data: <<gen, buf>>
DataInputs ==
    { <<[family |-> "raw"], b>> : b \in NoMarkerBuffers }
    \cup { <<[family |-> "assembled"], b>> : b \in Assembled }
    \cup { <<g, WaveformFile(g)>> : g \in Waveforms }

Idle ==
    /\ pc = "start"
    /\ data = <<>> /\ frame = FrameRaises("") /\ frames = <<>>
    /\ header = <<>> /\ bin_data = <<>> /\ data_len = 0
    /\ err = "" /\ array = NoResult
    /\ kv_pairs = <<>> /\ remove = <<>>

Init ==
    /\ entry = "parse_isf_data"
    /\ \E i \in DataInputs : gen = i[1] /\ buf = i[2]
    /\ Idle

Next ==
    \/ CallSplit
    \/ FrameRaise
    \/ FrameReturn
    \/ FrameRecurse
    \/ FrameOverflow
    \/ Except
    \/ ReturnNested
    \/ DataRaise
    \/ DecodeData

Spec == Init /\ [][Next]_vars


-----------------------------------------------------------------------------
(* The texts handed to parse_isf_header: texts made of tokens, well and    *)
(* badly formed, and texts that write a list of (field, value) pairs in a  *)
(* namespace and a spelling.                                               *)

\* 'NR_PT 1', ':WFMPRE:BYT_NR 2', ':WFMP:PT_F ENV', 'abc', '', ' x',
\* 'NR_PT x', 'COMP x', 'FILTERF 1', 'ZZ 1', 'BY:WFMP:T_NR 1', 'XUNIT "s"',
\* 'XINCR 1.0'
HeaderTokens ==
    { <<78, 82, 95, 80, 84, 32, 49>>,
      <<58, 87, 70, 77, 80, 82, 69, 58, 66, 89, 84, 95, 78, 82, 32, 50>>,
      <<58, 87, 70, 77, 80, 58, 80, 84, 95, 70, 32, 69, 78, 86>>,
      <<97, 98, 99>>,
      <<>>,
      <<32, 120>>,
      <<78, 82, 95, 80, 84, 32, 120>>,
      <<67, 79, 77, 80, 32, 120>>,
      <<70, 73, 76, 84, 69, 82, 70, 32, 49>>,
      <<90, 90, 32, 49>>,
      <<66, 89, 58, 87, 70, 77, 80, 58, 84, 95, 78, 82, 32, 49>>,
      <<88, 85, 78, 73, 84, 32, 34, 115, 34>>,
      <<88, 73, 78, 67, 82, 32, 49, 46, 48>> }

\* the most tokens of a text, the most pairs of a list
MaxTokens == 2
MaxPairs == 2

\* the tokens joined by ';', with and without a ';' at the end
TokenTexts ==
    UNION { {Join(ts, SEMI), Join(ts, SEMI) \o <<SEMI>>} : ts \in SeqsUpTo(HeaderTokens, MaxTokens) }

\* (BYT_NR, '1'), (PT_FMT, 'ENV'), (WFID, ':WFMPRE:x'), (XINCR, '1.0'),
\* (XUNIT, '"s"'), (:CURVE, '#13')
Pairs ==
    { <<"BYT_NR", <<49>>>>,
      <<"PT_FMT", <<69, 78, 86>>>>,
      <<"WFID", <<58, 87, 70, 77, 80, 82, 69, 58, 120>>>>,
      <<"XINCR", <<49, 46, 48>>>>,
      <<"XUNIT", <<34, 115, 34>>>>,
      <<":CURVE", <<35, 49, 51>>>> }

\* the text that writes the pairs, every key in the namespace and spelling
HeaderText(pairs, namespace, spelling) ==
    Join([i \in 1..Len(pairs) |-> Token(namespace, pairs[i][1], spelling, pairs[i][2])], SEMI)

Variants == {<<ns, sp>> : ns \in {WFMPRE, WFMP}, sp \in {"long", "short"}}

\* the arguments of parse_isf_header: <<gen, buf>>
HeaderInputs ==
    { <<[family |-> "tokens"], t>> : t \in TokenTexts }
    \cup { <<[family |-> "pairs", pairs |-> ps, namespace |-> v[1], spelling |-> v[2]],
             HeaderText(ps, v[1], v[2])>> : ps \in SeqsUpTo(Pairs, MaxPairs), v \in Variants }

InitHeader ==
    /\ entry = "parse_isf_header"
    /\ \E i \in HeaderInputs : gen = i[1] /\ buf = i[2]
    /\ Idle

NextHeader ==
    \/ HeaderStart
    \/ HeaderToken
    \/ HeaderReturn

SpecHeader == InitHeader /\ [][NextHeader]_vars


-----------------------------------------------------------------------------
(* The properties of split_isf_header, checked under Spec.                 *)

\* the outermost split_isf_header call has ended, one way or the other
SplitEnded == SplitRaised \/ SplitReturned

\* C1: on a buffer that holds no ':CURV' marker, split_isf_header fails
\* with InvalidFileError, with no other error, and never returns a result.
C1_NoMarkerRejected ==
    (SplitEnded /\ PyFind(buf, curve) = -1)
        => (SplitRaised /\ err = "InvalidFileError")

\* C2, the buffers it speaks of.  From the first ':CURV': ' #' or 'E #',
\* a count digit in 1..9, that many decimal digits, and at least as many
\* further bytes as the digits say.  CountAt is the 0-based index of the
\* count digit, -1 when the directive is not spelled so.
CountAt(b) ==
    LET at == PyFind(b, curve) + Len(curve)
    IN  IF PyFind(b, curve) = -1 THEN -1
        ELSE IF PySlice(b, at, at + 2) = <<SPACE, 35>> THEN at + 2
        ELSE IF PySlice(b, at, at + 3) = <<LETTER_E, SPACE, 35>> THEN at + 3
        ELSE -1

LengthDigits(b) ==
    IF CountAt(b) = -1 \/ CountAt(b) >= Len(b) \/ b[CountAt(b) + 1] \notin 49..57
    THEN <<>>
    ELSE PySlice(b, CountAt(b) + 1, CountAt(b) + 1 + (b[CountAt(b) + 1] - 48))

\* the header text of such a buffer: all bytes up to the last length digit
HeaderTextOf(b) == PySlice(b, 0, CountAt(b) + 1 + Len(LengthDigits(b)))

\* a token of the text writes PT_FMT (under an alias, in a namespace) as ENV
DeclaresEnv(text) ==
    \E i \in DOMAIN PySplit(text, SEMI) :
        PySplit(text, SEMI)[i] \in
            { ns \o k \o <<SPACE>> \o ENV :
                ns \in {<<>>, WFMPRE, WFMP},
                k \in {KeyText("PT_FMT", "long"), KeyText("PT_FMT", "short")} }

WellFormedPrefix(b) ==
    /\ LengthDigits(b) # <<>>
    /\ Len(LengthDigits(b)) = b[CountAt(b) + 1] - 48
    /\ \A i \in DOMAIN LengthDigits(b) : LengthDigits(b)[i] \in Digits
    /\ Len(b) >= Len(HeaderTextOf(b)) + DigitsVal(LengthDigits(b), 0)
    /\ ~DeclaresEnv(HeaderTextOf(b))

\* C2: on a buffer with a well-formed directive and length prefix and
\* enough bytes after it, whose header does not declare ENV,
\* split_isf_header returns the header parsed from the bytes up to the last
\* length digit and the data_len bytes that follow it.
C2_WellFormedSplits ==
    (SplitEnded /\ WellFormedPrefix(buf))
        => /\ SplitReturned
           /\ Returned(header) = parse_isf_header(HeaderTextOf(buf))
           /\ bin_data = SubSeq(buf, Len(HeaderTextOf(buf)) + 1,
                                Len(HeaderTextOf(buf)) + DigitsVal(LengthDigits(buf), 0))

\* parse_isf_data has ended after a return of split_isf_header
Decoded == entry = "parse_isf_data" /\ pc = "done" /\ frame.kind = "return"

\* C3: a payload returned by split_isf_header has exactly data_len bytes;
\* a buffer that declares more bytes than it holds is rejected with an
\* error, and parse_isf_data makes no array of it.
C3_PayloadExact ==
    /\ SplitReturned => Len(bin_data) = data_len
    /\ (Decoded /\ data_len > Len(bin_data)) => array.kind = "raise"

\* C7: when the header of the first pair declares ENV, what
\* split_isf_header returns is the header and payload of the split of the
\* suffix after the first payload, and when it fails it fails with
\* InvalidFileError.
C7_EnvReturnsSecond ==
    (SplitEnded /\ Frame(buf).kind = "recurse")
        => /\ SplitRaised => err = "InvalidFileError"
           /\ (SplitReturned /\ Frame(Frame(buf).rest).kind = "return")
                => /\ header = Frame(Frame(buf).rest).header
                   /\ bin_data = Frame(Frame(buf).rest).bin_data

\* C10: every nested call of split_isf_header is made on a buffer strictly
\* shorter than the buffer of its caller.
C10_SuffixShorter ==
    [][(pc = "frame" /\ pc' = "frame" /\ Len(frames') = Len(frames) + 1)
          => Len(data') < Len(data)]_vars


-----------------------------------------------------------------------------
(* The properties of the decoder, checked under Spec.                      *)

\* C8: when the payload does not hold exactly NR_PT * BYT_NR bytes, the
\* decoding fails and parse_isf_data returns no array.
C8_LengthMismatchFails ==
    (/\ Decoded
     /\ header["NR_PT"].t = "int" /\ header["BYT_NR"].t = "int"
     /\ Len(bin_data) # header["NR_PT"].n * header["BYT_NR"].n)
        => array.kind = "raise"

\* a waveform file that declares what its payload holds
RoundTrip == gen.family = "waveform" /\ gen.nr_pt = Len(gen.samples) /\ gen.extra = 0

\* C9: of a well-formed file parse_isf_data returns NR_PT rows in sample
\* order, x[i] = (i - PT_OFF) * XINCR + XZERO and
\* y[i] = (raw[i] - YOFF) * YMULT + YZERO, raw being the integers the file
\* was written from, in every byte order, signedness and width; the file
\* of the samples [1, -1, 2] gives X = [0, 1, 2] and Y = [2, -2, 4].
C9_Calibrated ==
    /\ (entry = "parse_isf_data" /\ pc = "done" /\ RoundTrip)
         => /\ array.kind = "return"
            /\ Len(array.x) = gen.nr_pt
            /\ Len(array.y) = gen.nr_pt
            /\ \A i \in 1..gen.nr_pt :
                 /\ array.x[i] = Normal(((i - 1) - gen.cal[1]) * gen.cal[2] + gen.cal[3], 0)
                 /\ array.y[i] = Normal((gen.samples[i] - gen.cal[4]) * gen.cal[5] + gen.cal[6], 0)
    /\ (entry = "parse_isf_data" /\ pc = "done" /\ gen = Example)
         => /\ array.x = <<Normal(0, 0), Normal(1, 0), Normal(2, 0)>>
            /\ array.y = <<Normal(2, 0), Normal(-2, 0), Normal(4, 0)>>

\* a file of two-byte signed samples, a negative one among them, has been
\* decoded into calibrated rows
C9_Witness ==
    /\ entry = "parse_isf_data" /\ pc = "done" /\ RoundTrip
    /\ gen.width = 2 /\ gen.bn_fmt = "RI" /\ gen.byte_order = "MSB"
    /\ gen.samples = <<-1, 1>> /\ gen.cal = <<1, 2, -3, 4, -5, 6>>
    /\ array.kind = "return"
    /\ array.y = <<Normal(31, 0), Normal(21, 0)>>

-----------------------------------------------------------------------------
(* The properties of parse_isf_header, checked under SpecHeader.           *)

HeaderEnded == entry = "parse_isf_header" /\ pc = "done"

\* C4: parse_isf_header never fails, whatever the text.
C4_HeaderNeverFails == HeaderEnded => err = ""

\* the aliases of a field: its raw keys in the two spellings
Aliases(field) == {KeyText(field, "long"), KeyText(field, "short")}

\* the key of a token: the text before its first space, without the
\* namespace prefix it starts with
LeadingStripped(key) ==
    IF PySlice(key, 0, Len(WFMPRE)) = WFMPRE THEN PySliceFrom(key, Len(WFMPRE))
    ELSE IF PySlice(key, 0, Len(WFMP)) = WFMP THEN PySliceFrom(key, Len(WFMP))
    ELSE key

KeysOf(text) ==
    { LeadingStripped(PySplit1(Tokens(text)[i], SPACE)[1]) : i \in DOMAIN Tokens(text) }

\* C5: the header parse_isf_header returns has the keys of
\* HEADER_DISPATCHER and no others, and a field none of whose aliases is
\* the key of a token holds None: tokens with other keys change nothing.
C5_SchemaAndSentinel ==
    (HeaderEnded /\ err = "")
        => /\ DOMAIN header = DOMAIN HEADER_DISPATCHER
           /\ \A field \in DOMAIN HEADER_DISPATCHER :
                (Aliases(field) \cap KeysOf(buf) = {}) => header[field] = None

\* C6: the texts that write a list of pairs under ':WFMPRE:' and under
\* ':WFMP:', in the long and in the short spelling, all make
\* parse_isf_header return the same header.
C6_SpellingsAgree ==
    (HeaderEnded /\ gen.family = "pairs")
        => /\ err = ""
           /\ \A v \in Variants :
                parse_isf_header(HeaderText(gen.pairs, v[1], v[2])) = Returned(header)

=============================================================================
